---------------------------- MODULE Spec2Model ----------------------------
(***************************************************************************)
(* A model of premailer (src/premailer/premailer.py): CSS rules of a       *)
(* document are turned into inline style attributes.                       *)
(*                                                                         *)
(* Text is modelled at the character level: a Python string is a sequence  *)
(* of one-character strings, so that split, strip, join and the regular    *)
(* expressions of the source are computed as the source computes them.     *)
(* A Python dict is a sequence of <<key, value>> pairs with unique keys,   *)
(* kept in insertion order.  CPython 2.7 iterates a dict in the order of   *)
(* the slots of its hash table: every iteration over a dict (items(),      *)
(* values()) goes through Items, which lays the keys out in the table as   *)
(* the interpreter does (64-bit build, string hash without randomization). *)
(***************************************************************************)
EXTENDS Naturals, Sequences, FiniteSets

VARIABLES
    \* ---- Premailer.transform on one document
    pc,                 \* "start", "expand", "rules", "finish", "done", "failed"
    exclude_pseudoclasses,
    style_text,         \* text of the <style> element; Removed once it is deleted
    rules,              \* the flattenable rules, in order
    leftover,           \* the rules _parse_style_rules left unflattened
    idx,                \* number of rules already applied
    attrib,             \* element -> dict of its attributes
    first_time,         \* elements already touched, in order
    first_time_styles,  \* <<element, inline style at first touch>>, in order
    class_,             \* transform's local class_ (Unbound before the first rule)
    queried,            \* per applied rule: <<selector queried, pseudo key used>>
    out,                \* the value transform returns; NoDocument before it returns
    \* ---- _merge_styles / _style_to_basic_html_attributes called repeatedly
    m_old, m_new, m_class, m_style, m_attributes, m_calls,
    \* ---- _split_spacing_properties called on a list of rules
    s_rules, s_orules

vars == <<pc, exclude_pseudoclasses, style_text, rules, leftover, idx,
          attrib, first_time, first_time_styles, class_, queried, out,
          m_old, m_new, m_class, m_style, m_attributes, m_calls,
          s_rules, s_orules>>

transformVars == <<pc, exclude_pseudoclasses, style_text, rules, leftover, idx,
                   attrib, first_time, first_time_styles, class_, queried, out>>
mergeVars == <<m_old, m_new, m_class, m_style, m_attributes, m_calls>>
splitVars == <<s_rules, s_orules>>

-----------------------------------------------------------------------------
(* Characters and strings *)

\* The characters str.strip() strips, str.split() splits at and \s matches:
\* blank, \t, \n, \r, \f and the vertical tab \v.
VerticalTab == ""
Whitespace == {" ", "\t", "\n", "\r", "\f", VerticalTab}

\* The characters of the regular expression class \w.
WordChars ==
    {"a","b","c","d","e","f","g","h","i","j","k","l","m",
     "n","o","p","q","r","s","t","u","v","w","x","y","z",
     "A","B","C","D","E","F","G","H","I","J","K","L","M",
     "N","O","P","Q","R","S","T","U","V","W","X","Y","Z",
     "0","1","2","3","4","5","6","7","8","9","_"}

\* A raised exception, where the result would have been a text.  No text
\* equals it: the elements of a text are single characters.
Raised == <<"raised">>

\* A raised exception, where the result would have been a dict or a list of
\* pairs whose first component is a text.
RaisedPairs == << <<Raised, <<>> >> >>

\* s[from..] and s[..to] as Python slices over 1-based positions.
From(s, i) == SubSeq(s, i, Len(s))
Upto(s, i) == SubSeq(s, 1, i)

\* First position of character c in s, 0 when there is none (str.find + 1).
Find(s, c) ==
    IF \E i \in 1..Len(s) : s[i] = c
    THEN CHOOSE i \in 1..Len(s) : s[i] = c /\ \A j \in 1..(i-1) : s[j] # c
    ELSE 0

\* str.count of a single character.
Count(s, c) == Cardinality({i \in 1..Len(s) : s[i] = c})

\* str.split(c): the pieces between the occurrences of c, at least one.
RECURSIVE Split(_, _)
Split(s, c) ==
    LET i == Find(s, c)
    IN  IF i = 0 THEN <<s>>
        ELSE <<Upto(s, i-1)>> \o Split(From(s, i+1), c)

\* str.split(c, 1): at most two pieces.
Split1(s, c) ==
    LET i == Find(s, c)
    IN  IF i = 0 THEN <<s>> ELSE <<Upto(s, i-1), From(s, i+1)>>

RECURSIVE LStrip(_)
LStrip(s) == IF s # <<>> /\ Head(s) \in Whitespace THEN LStrip(Tail(s)) ELSE s

RECURSIVE RStrip(_)
RStrip(s) ==
    IF s # <<>> /\ s[Len(s)] \in Whitespace THEN RStrip(Upto(s, Len(s)-1)) ELSE s

\* str.strip()
Strip(s) == RStrip(LStrip(s))

\* str.split() without a separator: the whitespace-separated words.
RECURSIVE SplitWords(_)
SplitWords(s) ==
    LET t == LStrip(s)
        n == IF \E i \in 1..Len(t) : t[i] \in Whitespace
             THEN CHOOSE i \in 1..Len(t) :
                      t[i] \in Whitespace /\ \A j \in 1..(i-1) : t[j] \notin Whitespace
             ELSE Len(t) + 1
    IN  IF t = <<>> THEN <<>>
        ELSE <<Upto(t, n-1)>> \o SplitWords(From(t, n))

\* sep.join(parts)
RECURSIVE Join(_, _)
Join(parts, sep) ==
    IF parts = <<>> THEN <<>>
    ELSE IF Len(parts) = 1 THEN parts[1]
    ELSE parts[1] \o sep \o Join(Tail(parts), sep)

StartsWith(s, p) == Len(s) >= Len(p) /\ Upto(s, Len(p)) = p
EndsWith(s, p) == Len(s) >= Len(p) /\ From(s, Len(s) - Len(p) + 1) = p

Range(s) == {s[i] : i \in 1..Len(s)}

-----------------------------------------------------------------------------
(* Python dicts *)

Keys(d) == {d[i][1] : i \in 1..Len(d)}

\* d[k] for a key of d
Get(d, k) == d[CHOOSE i \in 1..Len(d) : d[i][1] = k][2]

\* d.get(k, default)
GetOr(d, k, default) == IF k \in Keys(d) THEN Get(d, k) ELSE default

\* d[k] = v
Put(d, k, v) ==
    IF k \in Keys(d)
    THEN [i \in 1..Len(d) |-> IF d[i][1] = k THEN <<k, v>> ELSE d[i]]
    ELSE Append(d, <<k, v>>)

\* The characters of codes 32 to 126, in order, but for the backquote (96).
AsciiPrintable ==
    << " ","!","\"","#","$","%","&","'","(",")","*","+",",","-",".","/","0",
       "1","2","3","4","5","6","7","8","9",":",";","<","=",">","?","@","A",
       "B","C","D","E","F","G","H","I","J","K","L","M","N","O","P","Q","R",
       "S","T","U","V","W","X","Y","Z","[","\\","]","^","_","a","b","c",
       "d","e","f","g","h","i","j","k","l","m","n","o","p","q","r","s","t",
       "u","v","w","x","y","z","{","|","}","~" >>

\* ord(c)
Ord(c) ==
    IF c = "\t" THEN 9 ELSE IF c = "\n" THEN 10 ELSE IF c = VerticalTab THEN 11
    ELSE IF c = "\f" THEN 12 ELSE IF c = "\r" THEN 13
    ELSE LET n == CHOOSE i \in 1..Len(AsciiPrintable) : AsciiPrintable[i] = c
         IN  IF n <= 64 THEN 31 + n ELSE 32 + n

\* a ^ b on naturals
RECURSIVE BitXor(_, _)
BitXor(a, b) ==
    IF a = 0 THEN b ELSE IF b = 0 THEN a
    ELSE ((a + b) % 2) + 2 * BitXor(a \div 2, b \div 2)

\* A 64-bit word is a sequence of 8 bytes, the lowest first.
\* (1000003 * x) mod 2^64, byte by byte with a carry.
RECURSIVE MulBytes(_, _)
MulBytes(x, carry) ==
    IF x = <<>> THEN <<>>
    ELSE <<(Head(x) * 1000003 + carry) % 256>>
             \o MulBytes(Tail(x), (Head(x) * 1000003 + carry) \div 256)

\* x ^ v for v < 2^16
XorLow(x, v) == <<BitXor(x[1], v % 256), BitXor(x[2], v \div 256)>> \o SubSeq(x, 3, 8)

\* The loop "while (--len >= 0) x = (1000003*x) ^ *p++" of the string hash.
RECURSIVE HashLoop(_, _)
HashLoop(s, x) ==
    IF s = <<>> THEN x
    ELSE HashLoop(Tail(s), XorLow(MulBytes(x, 0), Ord(Head(s))))

\* hash(s) of a str as an unsigned 64-bit word: 0 for '', else
\* x = s[0] << 7, the loop, x ^= len(s), and -2 in place of -1.
StringHash(s) ==
    IF s = <<>> THEN <<0, 0, 0, 0, 0, 0, 0, 0>>
    ELSE LET x == XorLow(HashLoop(s, <<(Ord(s[1]) * 128) % 256, (Ord(s[1]) * 128) \div 256,
                                       0, 0, 0, 0, 0, 0>>),
                         Len(s))
         IN  IF x = <<255, 255, 255, 255, 255, 255, 255, 255>>
             THEN <<254, 255, 255, 255, 255, 255, 255, 255>> ELSE x

\* x >> 5 (PERTURB_SHIFT)
ShiftRight5(x) ==
    << (x[1] \div 32) + (x[2] % 32) * 8, (x[2] \div 32) + (x[3] % 32) * 8,
       (x[3] \div 32) + (x[4] % 32) * 8, (x[4] \div 32) + (x[5] % 32) * 8,
       (x[5] \div 32) + (x[6] % 32) * 8, (x[6] \div 32) + (x[7] % 32) * 8,
       (x[7] \div 32) + (x[8] % 32) * 8, x[8] \div 32 >>

\* The slot, counted from 0, where the probe sequence of the dict lookup
\* finds room: i = hash & mask, then i = (i << 2) + i + perturb + 1 with
\* perturb >>= 5 after each step.  A table is a sequence of slots that hold
\* 0 (empty) or the position of a key in the dict.
RECURSIVE FreeSlot(_, _, _)
FreeSlot(table, i, perturb) ==
    IF table[i + 1] = 0 THEN i
    ELSE FreeSlot(table, (5 * i + perturb[1] + 256 * perturb[2] + 1) % Len(table),
                  ShiftRight5(perturb))

\* The table after the key of position n, of hash h, is put in a free slot.
PlacedAt(table, i, n) == SubSeq(table, 1, i) \o <<n>> \o SubSeq(table, i + 2, Len(table))

Placed(table, n, h) ==
    PlacedAt(table, FreeSlot(table, (h[1] + 256 * h[2]) % Len(table), h), n)

\* dictresize(mp, minused): the smallest power of two above minused, from 8.
RECURSIVE NewSize(_, _)
NewSize(size, minused) == IF size <= minused THEN NewSize(2 * size, minused) ELSE size

\* The entries of the old table are put into the new one in slot order.
RECURSIVE Rehashed(_, _, _)
Rehashed(d, old, new) ==
    IF old = <<>> THEN new
    ELSE Rehashed(d, Tail(old),
                  IF Head(old) = 0 THEN new
                  ELSE Placed(new, Head(old), StringHash(d[Head(old)][1])))

\* A table of n empty slots.
RECURSIVE EmptyTable(_)
EmptyTable(n) == IF n = 0 THEN <<>> ELSE <<0>> \o EmptyTable(n - 1)

\* The table grows to 4 * used when two thirds of its slots are filled.
Grown(d, table, used) ==
    IF used * 3 >= Len(table) * 2
    THEN Rehashed(d, table, EmptyTable(NewSize(8, 4 * used)))
    ELSE table

\* The table of dict d after its first n keys were inserted in turn.
RECURSIVE Table(_, _)
Table(d, n) ==
    IF n = 0 THEN EmptyTable(8)
    ELSE Grown(d, Placed(Table(d, n - 1), n, StringHash(d[n][1])), n)

\* The entries of d that the slots hold, in the order of the slots.
RECURSIVE Entries(_, _)
Entries(d, slots) ==
    IF slots = <<>> THEN <<>>
    ELSE (IF Head(slots) = 0 THEN <<>> ELSE <<d[Head(slots)]>>) \o Entries(d, Tail(slots))

\* d.items(): the entries in the order of the slots of the table.
Items(d) == Entries(d, Table(d, Len(d)))

\* dict(pairs): each pair assigned in turn
RECURSIVE FromPairs(_, _)
FromPairs(d, pairs) ==
    IF pairs = <<>> THEN d
    ELSE FromPairs(Put(d, Head(pairs)[1], Head(pairs)[2]), Tail(pairs))

-----------------------------------------------------------------------------
(* String constants of the source *)

str_margin == <<"m","a","r","g","i","n">>
str_padding == <<"p","a","d","d","i","n","g">>
str_top == <<"-","t","o","p",":">>
str_right == <<"-","r","i","g","h","t",":">>
str_bottom == <<"-","b","o","t","t","o","m",":">>
str_left == <<"-","l","e","f","t",":">>
str_text_align == <<"t","e","x","t","-","a","l","i","g","n">>
str_background_color == <<"b","a","c","k","g","r","o","u","n","d","-","c","o","l","o","r">>
str_width == <<"w","i","d","t","h">>
str_height == <<"h","e","i","g","h","t">>
str_align == <<"a","l","i","g","n">>
str_bgcolor == <<"b","g","c","o","l","o","r">>
str_px == <<"p","x">>
str_style == <<"s","t","y","l","e">>
str_important == <<"!","i","m","p","o","r","t","a","n","t">>

\* FILTER_PSEUDOSELECTORS = [':last-child', ':first-child', 'nth-child']
FILTER_PSEUDOSELECTORS ==
    { <<":","l","a","s","t","-","c","h","i","l","d">>,
      <<":","f","i","r","s","t","-","c","h","i","l","d">>,
      <<"n","t","h","-","c","h","i","l","d">> }

-----------------------------------------------------------------------------
(* _split_spacing_properties *)

\* The locals top, right, bottom, left before any branch has bound them.
Unbound == <<>>

\* A variant of Sides that gives, for three values, the third one to left.
SidesThirdLeft(values, sides) ==
    IF Len(values) = 1 THEN <<values[1], values[1], values[1], values[1]>>
    ELSE IF Len(values) = 2 THEN <<values[1], values[2], values[1], values[2]>>
    ELSE IF Len(values) = 3 THEN <<values[1], values[2], values[3], values[3]>>
    ELSE IF Len(values) = 4 THEN <<values[1], values[2], values[3], values[4]>>
    ELSE sides

\* The values of top, right, bottom, left after the if/elif chain on
\* len(values); no branch is taken for 0 or more than 4 values, and the
\* locals keep what an earlier declaration left in them.
Sides(values, sides) ==
    IF Len(values) = 1 THEN <<values[1], values[1], values[1], values[1]>>
    ELSE IF Len(values) = 2 THEN <<values[1], values[2], values[1], values[2]>>
    ELSE IF Len(values) = 3 THEN <<values[1], values[2], values[3], values[2]>>
    ELSE IF Len(values) = 4 THEN <<values[1], values[2], values[3], values[4]>>
    ELSE sides

\* A variant of ExpandProperties that passes on a declaration without exactly
\* one ':' as it is, where the source fails.
RECURSIVE ExpandPropertiesLenient(_, _, _)
ExpandPropertiesLenient(decls, properties, sides) ==
    IF decls = <<>> THEN <<properties, sides>>
    ELSE LET property_ == Head(decls)
             pv == Split(property_, ":")
         IN  IF Len(pv) # 2 \/ pv[1] \notin {str_margin, str_padding}
             THEN ExpandPropertiesLenient(Tail(decls), properties \o property_ \o <<";">>, sides)
             ELSE LET p == pv[1]
                      now == Sides(SplitWords(pv[2]), sides)
                  IN  IF now = Unbound THEN <<Raised, sides>>
                      ELSE ExpandPropertiesLenient(Tail(decls),
                               properties
                                 \o p \o str_top \o now[1] \o <<";">>
                                 \o p \o str_right \o now[2] \o <<";">>
                                 \o p \o str_bottom \o now[3] \o <<";">>
                                 \o p \o str_left \o now[4] \o <<";">>,
                               now)

\* The inner loop over style.split(';'): <<properties, sides>> at its end, or
\* <<Raised, sides>> (the unpacking of property_.split(':') into p, v fails,
\* or an unbound local is read).
RECURSIVE ExpandProperties(_, _, _)
ExpandProperties(decls, properties, sides) ==
    IF decls = <<>> THEN <<properties, sides>>
    ELSE LET property_ == Head(decls)
             pv == Split(property_, ":")
         IN  IF Len(pv) # 2 THEN <<Raised, sides>>
             ELSE IF pv[1] \notin {str_margin, str_padding}
             THEN ExpandProperties(Tail(decls), properties \o property_ \o <<";">>, sides)
             ELSE LET p == pv[1]
                      now == Sides(SplitWords(pv[2]), sides)
                  IN  IF now = Unbound THEN <<Raised, sides>>
                      ELSE ExpandProperties(Tail(decls),
                               properties
                                 \o p \o str_top \o now[1] \o <<";">>
                                 \o p \o str_right \o now[2] \o <<";">>
                                 \o p \o str_bottom \o now[3] \o <<";">>
                                 \o p \o str_left \o now[4] \o <<";">>,
                               now)

\* The outer loop over the rules; orules at its end, or RaisedPairs.
RECURSIVE ExpandRules(_, _, _)
ExpandRules(rs, orules, sides) ==
    IF rs = <<>> THEN orules
    ELSE LET selector == Head(rs)[1]
             style == Head(rs)[2]
             r == ExpandProperties(Split(style, ";"), <<>>, sides)
         IN  IF r[1] = Raised THEN RaisedPairs
             ELSE LET properties ==
                          IF r[1][Len(r[1])] = ";" THEN Upto(r[1], Len(r[1]) - 1)
                          ELSE r[1]
                  IN  ExpandRules(Tail(rs), Append(orules, <<selector, properties>>), r[2])

_split_spacing_properties(rs) == ExpandRules(rs, <<>>, Unbound)

-----------------------------------------------------------------------------
(* _merge_styles *)

\* [x.strip().split(':', 1) for x in text.split(';') if x.strip()]
Declarations(text) ==
    LET xs == SelectSeq(Split(text, ";"), LAMBDA x : Strip(x) # <<>>)
    IN  [i \in 1..Len(xs) |-> Split1(Strip(xs[i]), ":")]

\* The dict built by "for k, v in [...]: d[k.strip()] = v.strip()", or
\* RaisedPairs when a piece has no ':' and cannot be unpacked into k, v.
ParseBlock(text) ==
    LET ps == Declarations(text)
    IN  IF \E i \in 1..Len(ps) : Len(ps[i]) # 2 THEN RaisedPairs
        ELSE FromPairs(<<>>, [i \in 1..Len(ps) |-> <<Strip(ps[i][1]), Strip(ps[i][2])>>])

\* The characters of the class [:\-\w] of grouping_regex.
GroupClassChars == WordChars \cup {":", "-"}

\* grouping_regex.findall(old) for '([:\-\w]*){([^}]+)}': the <<class,
\* content>> pairs of the non-overlapping matches, leftmost first.  A match
\* starts a maximal run of class characters that ends at a '{' which is
\* followed by at least one character other than '}' and then a '}'.  Where
\* the run starting at the current position yields no match, no position
\* inside that run does either, and the scan goes on after it.
RECURSIVE grouping_regex_findall(_)
grouping_regex_findall(s) ==
    IF s = <<>> THEN <<>>
    ELSE LET j == IF \E i \in 1..Len(s) : s[i] \notin GroupClassChars
                  THEN CHOOSE i \in 1..Len(s) :
                           s[i] \notin GroupClassChars
                           /\ \A h \in 1..(i-1) : s[h] \in GroupClassChars
                  ELSE Len(s) + 1
             k == IF j <= Len(s) /\ s[j] = "{" THEN Find(From(s, j+1), "}") ELSE 0
         IN  IF k >= 2
             THEN <<  <<Upto(s, j-1), SubSeq(s, j+1, j+k-1)>>  >>
                      \o grouping_regex_findall(From(s, j+k+1))
             ELSE grouping_regex_findall(From(s, j+1))

\* The loop "for old_class, old_content in grouped_split": the groups dict,
\* or RaisedPairs.
RECURSIVE GroupsOf(_, _)
GroupsOf(grouped_split, groups) ==
    IF grouped_split = <<>> THEN groups
    ELSE LET olds == ParseBlock(Head(grouped_split)[2])
         IN  IF olds = RaisedPairs THEN RaisedPairs
             ELSE GroupsOf(Tail(grouped_split), Put(groups, Head(grouped_split)[1], olds))

\* The groups dict parsed out of old (lines 104-118), or RaisedPairs.
ParseGroups(old) ==
    LET grouped_split == grouping_regex_findall(old)
    IN  IF grouped_split # <<>> THEN GroupsOf(grouped_split, <<>>)
        ELSE LET olds == ParseBlock(old)
             IN  IF olds = RaisedPairs THEN RaisedPairs ELSE << <<<<>>, olds>> >>

\* "for k, v in groups.get(class_, {}).items(): if k not in merged: ..."
RECURSIVE MergeInto(_, _)
MergeInto(merged, olditems) ==
    IF olditems = <<>> THEN merged
    ELSE MergeInto(IF Head(olditems)[1] \in Keys(merged) THEN merged
                   ELSE Put(merged, Head(olditems)[1], Head(olditems)[2]),
                   Tail(olditems))

\* '; '.join(['%s:%s' % (k, v) for (k, v) in block.items()])
BlockText(block) ==
    LET its == Items(block)
    IN  Join([i \in 1..Len(its) |-> its[i][1] \o <<":">> \o its[i][2]], <<";", " ">>)

\* A variant of the insertion that puts the keys with more colons first.
RECURSIVE InsertByColonsDescending(_, _)
InsertByColonsDescending(sorted, x) ==
    IF sorted = <<>> THEN <<x>>
    ELSE IF Count(Head(sorted)[1], ":") >= Count(x[1], ":")
    THEN <<Head(sorted)>> \o InsertByColonsDescending(Tail(sorted), x)
    ELSE <<x>> \o sorted

\* sorted(groups.items(), cmp on x[0].count(':')): a stable sort.
RECURSIVE InsertByColons(_, _)
InsertByColons(sorted, x) ==
    IF sorted = <<>> THEN <<x>>
    ELSE IF Count(Head(sorted)[1], ":") <= Count(x[1], ":")
    THEN <<Head(sorted)>> \o InsertByColons(Tail(sorted), x)
    ELSE <<x>> \o sorted

RECURSIVE SortedByColons(_, _)
SortedByColons(sorted, its) ==
    IF its = <<>> THEN sorted
    ELSE SortedByColons(InsertByColons(sorted, Head(its)), Tail(its))

\* The serialization of the groups dict (lines 127-139).
GroupsText(groups) ==
    IF Len(groups) = 1 THEN BlockText(Items(groups)[1][2])
    ELSE LET its == SortedByColons(<<>>, Items(groups))
             all == [i \in 1..Len(its) |->
                        its[i][1] \o <<"{">> \o BlockText(its[i][2]) \o <<"}">>]
         IN  Join(SelectSeq(all, LAMBDA x : x # <<"{", "}">>), <<" ">>)

\* "Perform the merge" (lines 120-125) on the parsed news and groups; an
\* exception raised while parsing them is passed on.
PerformMerge(news, groups, klass) ==
    IF news = RaisedPairs \/ groups = RaisedPairs THEN RaisedPairs
    ELSE Put(groups, klass, MergeInto(news, Items(GetOr(groups, klass, <<>>))))

\* The merged groups dict (lines 100-125), or RaisedPairs.
MergedGroups(old, new, klass) == PerformMerge(ParseBlock(new), ParseGroups(old), klass)

\* The returned text (lines 127-139), or Raised.
ReturnedText(groups) == IF groups = RaisedPairs THEN Raised ELSE GroupsText(groups)

_merge_styles(old, new, klass) == ReturnedText(MergedGroups(old, new, klass))

-----------------------------------------------------------------------------
(* Premailer._style_to_basic_html_attributes *)

\* style_content after lines 330-332: the condition compares count('{')
\* with itself, so it is count('}') > 0 alone.
FirstGroupContent(style_content) ==
    IF Count(style_content, "}") > 0
    THEN LET g == Split(style_content, "}")[1]
         IN  IF g = <<>> THEN <<>> ELSE Tail(g)
    ELSE style_content

\* The loop of lines 335-347 over the pieces with exactly one ':'.
RECURSIVE CollectAttributes(_, _)
CollectAttributes(pieces, attributes) ==
    IF pieces = <<>> THEN attributes
    ELSE LET kv == Split(Head(pieces), ":")
         IN  IF Len(kv) # 2 THEN CollectAttributes(Tail(pieces), attributes)
             ELSE LET key == Strip(kv[1])
                      value == Strip(kv[2])
                  IN  CollectAttributes(Tail(pieces),
                        IF key = str_text_align THEN Put(attributes, str_align, value)
                        ELSE IF key = str_background_color
                        THEN Put(attributes, str_bgcolor, value)
                        ELSE IF key = str_width \/ key = str_height
                        THEN Put(attributes, key,
                                 IF EndsWith(value, str_px)
                                 THEN Upto(value, Len(value) - 2) ELSE value)
                        ELSE attributes)

\* The local dict attributes (lines 330-350).
BasicAttributes(style_content) ==
    CollectAttributes(Split(FirstGroupContent(style_content), ";"), <<>>)

\* Lines 352-356 on element.attrib.
RECURSIVE SetAttributes(_, _, _)
SetAttributes(element_attrib, its, force) ==
    IF its = <<>> THEN element_attrib
    ELSE SetAttributes(
             IF Head(its)[1] \in Keys(element_attrib) /\ ~force THEN element_attrib
             ELSE Put(element_attrib, Head(its)[1], Head(its)[2]),
             Tail(its), force)

\* element.attrib after the call.
_style_to_basic_html_attributes(element_attrib, style_content, force) ==
    SetAttributes(element_attrib, Items(BasicAttributes(style_content)), force)

-----------------------------------------------------------------------------
(* Premailer._parse_style_rules *)

\* Constructor defaults that the model keeps fixed.
include_star_selectors == FALSE
keep_style_tags == FALSE
remove_classes == TRUE
strip_important == TRUE

\* _css_comments.sub('', css_body) for r'/\*.*?\*/' (DOTALL): every comment,
\* from a "/*" to the first "*/" after it, is removed.
RECURSIVE css_comments_sub(_)
css_comments_sub(s) ==
    LET Opens(i) == s[i] = "/" /\ s[i+1] = "*"
                    /\ \E e \in (i+2)..(Len(s)-1) : s[e] = "*" /\ s[e+1] = "/"
        Closes(i, e) == s[e] = "*" /\ s[e+1] = "/"
                        /\ \A h \in (i+2)..(e-1) : ~(s[h] = "*" /\ s[h+1] = "/")
    IN  IF \E i \in 1..(Len(s)-1) : Opens(i)
        THEN LET b == CHOOSE i \in 1..(Len(s)-1) :
                          Opens(i) /\ \A h \in 1..(i-1) : ~Opens(h)
                 e == CHOOSE e \in (b+2)..(Len(s)-1) : Closes(b, e)
             IN  Upto(s, b-1) \o css_comments_sub(From(s, e+2))
        ELSE s

\* _regex.findall(css) for '((.*?){(.*?)})' (DOTALL): the <<selectors, bulk>>
\* of each block, the text up to the next '{' and from there to the next '}'.
RECURSIVE regex_findall(_)
regex_findall(s) ==
    LET i == Find(s, "{")
        k == IF i = 0 THEN 0 ELSE Find(From(s, i+1), "}")
    IN  IF i = 0 \/ k = 0 THEN <<>>
        ELSE << <<Upto(s, i-1), SubSeq(s, i+1, i+k-1)>> >>
                 \o regex_findall(From(s, i+k+1))

\* re.sub(c + '(\s+)', c, s): the whitespace that follows character c is
\* removed (_semicolon_regex for ';', _colon_regex for ':').
RECURSIVE SubSpaceAfter(_, _)
SubSpaceAfter(s, c) ==
    LET i == Find(s, c)
    IN  IF i = 0 THEN s
        ELSE Upto(s, i) \o SubSpaceAfter(LStrip(From(s, i+1)), c)

\* bulk as lines 183-186 leave it.
NormalizedBulk(bulk) ==
    LET b1 == SubSpaceAfter(Strip(bulk), ";")
        b2 == SubSpaceAfter(Strip(b1), ":")
    IN  IF EndsWith(b2, <<";">>) THEN Upto(b2, Len(b2) - 1) ELSE b2

\* [x.strip() for x in selectors.split(',')
\*  if x.strip() and not x.strip().startswith('@')]
SelectorList(selectors) ==
    LET xs == Split(selectors, ",")
        stripped == [i \in 1..Len(xs) |-> Strip(xs[i])]
    IN  SelectSeq(stripped, LAMBDA x : x # <<>> /\ ~StartsWith(x, <<"@">>))

\* The loop over the selectors of one block (lines 187-199): <<rules, leftover>>.
RECURSIVE ClassifySelectors(_, _, _, _)
ClassifySelectors(sels, bulk, exclude, acc) ==
    IF sels = <<>> THEN acc
    ELSE LET selector == Head(sels)
         IN  ClassifySelectors(Tail(sels), bulk, exclude,
                 IF /\ Find(selector, ":") # 0
                    /\ exclude
                    /\ (<<":">> \o Split1(selector, ":")[2]) \notin FILTER_PSEUDOSELECTORS
                 THEN <<acc[1], Append(acc[2], <<selector, bulk>>)>>
                 ELSE IF selector = <<"*">> /\ ~include_star_selectors
                 THEN acc
                 ELSE <<Append(acc[1], <<selector, bulk>>), acc[2]>>)

\* The loop over the blocks (lines 180-199).
RECURSIVE ParseBlocks(_, _, _)
ParseBlocks(blocks, exclude, acc) ==
    IF blocks = <<>> THEN acc
    ELSE ParseBlocks(Tail(blocks), exclude,
             ClassifySelectors(SelectorList(Head(blocks)[1]),
                               NormalizedBulk(Head(blocks)[2]), exclude, acc))

\* <<rules, leftover>>
_parse_style_rules(css_body, exclude) ==
    ParseBlocks(regex_findall(Strip(css_comments_sub(css_body))), exclude, <<<<>>, <<>>>>)

-----------------------------------------------------------------------------
(* Premailer.transform *)

\* The document: <body><p>..</p><p style="color:red">..</p></body> with one
\* <style> element in its head.  Element 1 has no style attribute, element 2
\* has one.
Elements == {1, 2}

InlineStyle == <<"c","o","l","o","r",":","r","e","d">>

InitialAttrib == [e \in Elements |-> IF e = 2 THEN << <<str_style, InlineStyle>> >> ELSE <<>>]

\* CSSSelector(selector)(page): the elements of the document that the
\* selector matches, in document order.
CSSSelector(selector) ==
    IF selector = <<"p">> THEN <<1, 2>>
    ELSE IF selector = <<"p",":","f","i","r","s","t","-","c","h","i","l","d">> THEN <<1>>
    ELSE IF selector = <<"p",":","l","a","s","t","-","c","h","i","l","d">> THEN <<2>>
    ELSE IF selector = <<"p",":","n","t","h","-","c","h","i","l","d","(","2",")">> THEN <<2>>
    ELSE <<>>

\* The <style> element once it is removed from the document, and the value
\* of out before transform returns.
Removed == <<"removed">>
NoDocument == <<>>

\* '\n'.join(['%s {%s}' % (k, v) for (k, v) in these_leftover])
LeftoverText(these_leftover) ==
    Join([i \in 1..Len(these_leftover) |->
             these_leftover[i][1] \o <<" ", "{">> \o these_leftover[i][2] \o <<"}">>],
         <<"\n">>)

\* Lines 261-270: <<the selector to query, class_>>.
SelectorAndClass(selector) ==
    LET parts == Split1(selector, ":")
        new_selector == IF Len(parts) = 2 THEN parts[1] ELSE selector
        klass == IF Len(parts) = 2 THEN <<":">> \o parts[2] ELSE <<>>
    IN  IF klass \in FILTER_PSEUDOSELECTORS THEN <<selector, <<>>>>
        ELSE <<new_selector, klass>>

\* item.attrib after "item.attrib['style'] = new_style" and the call of
\* _style_to_basic_html_attributes(item, new_style, force=True).
Styled(element_attrib, new_style) ==
    _style_to_basic_html_attributes(Put(element_attrib, str_style, new_style),
                                    new_style, TRUE)

\* new_style of lines 275-283: on the first touch of an element that has a
\* style, _merge_styles(style, old_style, class_); else
\* _merge_styles(old_style, style, class_).
NewStyle(first, old_style, style, klass) ==
    LET swapped == first /\ old_style # <<>>
    IN  _merge_styles(IF swapped THEN style ELSE old_style,
                      IF swapped THEN old_style ELSE style, klass)

\* The body of the loop "for item in sel(page)" (lines 274-286) on the state
\* [attrib, first_time, first_time_styles, raised], given new_style.
Touched(st, item, first, old_style, new_style) ==
    IF new_style = Raised THEN [st EXCEPT !.raised = TRUE]
    ELSE [attrib |-> [st.attrib EXCEPT ![item] = Styled(@, new_style)],
          first_time |-> IF first THEN Append(st.first_time, item) ELSE st.first_time,
          first_time_styles |->
              IF first THEN Append(st.first_time_styles, <<item, old_style>>)
              ELSE st.first_time_styles,
          raised |-> FALSE]

TouchItem(st, item, first, old_style, style, klass) ==
    Touched(st, item, first, old_style, NewStyle(first, old_style, style, klass))

\* The loop "for item in sel(page)" (lines 273-286).
RECURSIVE ApplyToItems(_, _, _, _)
ApplyToItems(items, style, klass, st) ==
    IF items = <<>> \/ st.raised THEN st
    ELSE ApplyToItems(Tail(items), style, klass,
             TouchItem(st, Head(items), Head(items) \notin Range(st.first_time),
                       GetOr(st.attrib[Head(items)], str_style, <<>>), style, klass))

\* The body of the loop of lines 289-295 on [attrib, raised], given new_style.
Reapplied(st, item, new_style) ==
    IF new_style = Raised THEN [st EXCEPT !.raised = TRUE]
    ELSE [attrib |-> [st.attrib EXCEPT ![item] = Styled(@, new_style)],
          raised |-> FALSE]

\* The loop of lines 289-295 over first_time_styles.
RECURSIVE ReapplyInline(_, _, _)
ReapplyInline(fts, klass, st) ==
    IF fts = <<>> \/ st.raised THEN st
    ELSE ReapplyInline(Tail(fts), klass,
             IF Head(fts)[2] = <<>> THEN st
             ELSE Reapplied(st, Head(fts)[1],
                            _merge_styles(GetOr(st.attrib[Head(fts)[1]], str_style, <<>>),
                                          Head(fts)[2], klass)))

\* _importants.sub('', s) for '\s*!important'
RECURSIVE importants_sub(_)
importants_sub(s) ==
    LET Matches(i) == StartsWith(LStrip(From(s, i)), str_important)
    IN  IF \E i \in 1..Len(s) : Matches(i)
        THEN LET b == CHOOSE i \in 1..Len(s) : Matches(i) /\ \A h \in 1..(i-1) : ~Matches(h)
             IN  Upto(s, b-1)
                   \o importants_sub(From(LStrip(From(s, b)), Len(str_important) + 1))
        ELSE s

\* del d[k]
Del(d, k) == SelectSeq(d, LAMBDA kv : kv[1] # k)

\* The attributes of an element as the returned text shows them (lines
\* 297-319): class deleted, !important stripped.  The document has no href
\* or src attribute and no base_url.
Serialized(element_attrib) ==
    LET a == IF remove_classes THEN Del(element_attrib, <<"c","l","a","s","s">>)
             ELSE element_attrib
    IN  [i \in 1..Len(a) |->
            <<a[i][1], IF strip_important THEN importants_sub(a[i][2]) ELSE a[i][2]>>]

-----------------------------------------------------------------------------
(* _merge_styles and the attribute mapping applied to one element, call after
   call, as lines 283-286 apply them to item.attrib['style'] *)

\* Number of successive merges into one style.
MaxCalls == 3

\* The style the element starts with.
InitialStyles ==
    { <<>>,   \* ''
      <<"c","o","l","o","r",":","r","e","d",";"," ","m","a","r","g","i","n",":","1","p","x">>,   \* 'color:red; margin:1px'
      <<"w","i","d","t","h",":","5","p","x">> } \* 'width:5px'

\* The flat declaration texts merged in; transform never merges an empty one in.
NewStyles ==
    { <<"c","o","l","o","r",":","b","l","u","e">>,   \* 'color:blue'
      <<"c","o","l","o","r",":"," ","b","l","u","e"," ",";","f","o","n","t","-","w","e","i","g","h","t",":","b","o","l","d">>,   \* 'color: blue ;font-weight:bold'
      <<"w","i","d","t","h",":","1","0","p","x",";","h","e","i","g","h","t",":","5","p","x">>,   \* 'width:10px;height:5px'
      <<"t","e","x","t","-","a","l","i","g","n",":","c","e","n","t","e","r">> }   \* 'text-align:center'

\* The pseudo keys lines 262-268 pass: the unconditional '', two dynamic
\* pseudo-classes, a suffix that is not a member of FILTER_PSEUDOSELECTORS
\* and a suffix with a character outside the key class of grouping_regex.
PseudoKeys ==
    { <<>>,   \* ''
      <<":","h","o","v","e","r">>,   \* ':hover'
      <<":","v","i","s","i","t","e","d">>,   \* ':visited'
      <<":","n","t","h","-","c","h","i","l","d","(","2",")">>,   \* ':nth-child(2)'
      <<":","n","o","t","(",".","x",")">> }   \* ':not(.x)'

InitMerge ==
    /\ m_style \in InitialStyles
    /\ m_old = <<>> /\ m_new = <<>> /\ m_class = <<>>
    /\ m_attributes = <<>>
    /\ m_calls = 0
    /\ pc = "idle" /\ exclude_pseudoclasses = FALSE /\ style_text = <<>>
    /\ rules = <<>> /\ leftover = <<>> /\ idx = 0 /\ attrib = <<>>
    /\ first_time = <<>> /\ first_time_styles = <<>> /\ class_ = <<>>
    /\ queried = <<>> /\ out = <<>>
    /\ s_rules = <<>> /\ s_orules = <<>>

\* new_style = _merge_styles(old_style, style, class_), then the mapping of
\* new_style to attributes; m_attributes is the mapper's local dict.
MergeCall(new, klass) ==
    /\ m_calls < MaxCalls
    /\ m_style # Raised
    /\ m_old' = m_style
    /\ m_new' = new
    /\ m_class' = klass
    /\ m_style' = _merge_styles(m_style, new, klass)
    /\ m_attributes' = IF m_style' = Raised THEN <<>> ELSE BasicAttributes(m_style')
    /\ m_calls' = m_calls + 1
    /\ UNCHANGED <<transformVars, splitVars>>

NextMerge == \E new \in NewStyles, klass \in PseudoKeys : MergeCall(new, klass)

SpecMerge == InitMerge /\ [][NextMerge]_vars

-----------------------------------------------------------------------------
(* _split_spacing_properties called on a list of rules *)

\* Number of rules in the list.
MaxSplitRules == 2

\* The selectors of the rules.
SplitSelectors ==
    { <<"p">>,   \* 'p'
      <<"a",":","h","o","v","e","r">> }   \* 'a:hover'

\* The declaration blocks of the rules, as _parse_style_rules leaves them.
SplitStyles ==
    { <<"m","a","r","g","i","n",":","0">>,   \* 'margin:0'
      <<"c","o","l","o","r",":","r","e","d",";","m","a","r","g","i","n",":","1","p","x"," ","2","p","x",";","w","i","d","t","h",":","5","p","x">>,   \* 'color:red;margin:1px 2px;width:5px'
      <<"p","a","d","d","i","n","g",":","1","p","x"," ","\r","2","p","x","\t","3","p","x">>,   \* 'padding:1px \r2px\t3px'
      <<"m","a","r","g","i","n",":","1","p","x"," ","2","p","x"," ","3","p","x"," ","4","p","x",";","p","a","d","d","i","n","g",":","0"," ","a","u","t","o">>,   \* 'margin:1px 2px 3px 4px;padding:0 auto'
      <<"c","o","l","o","r",":","r","e","d",";","m","a","r","g","i","n","-","t","o","p",":","1","p","x">>,   \* 'color:red;margin-top:1px'
      <<"m","a","r","g","i","n",":","1"," ","2"," ","3"," ","4"," ","5">>,   \* 'margin:1 2 3 4 5'
      <<"p","a","d","d","i","n","g",":">>,   \* 'padding:'
      <<>>,   \* ''
      <<"c","o","l","o","r",":","r","e","d",";","w","i","d","t","h">>,   \* 'color:red;width'
      <<"b","a","c","k","g","r","o","u","n","d",":","u","r","l","(","h","t","t","p",":","/","/","x","/","y",".","p","n","g",")">> }   \* 'background:url(http://x/y.png)'

SplitRules == {<<sel, style>> : sel \in SplitSelectors, style \in SplitStyles}

InitSplit ==
    /\ s_rules \in UNION {[1..n -> SplitRules] : n \in 0..MaxSplitRules}
    /\ s_orules = <<>>
    /\ pc = "split"
    /\ m_style = <<>> /\ m_old = <<>> /\ m_new = <<>> /\ m_class = <<>>
    /\ m_attributes = <<>> /\ m_calls = 0
    /\ exclude_pseudoclasses = FALSE /\ style_text = <<>>
    /\ rules = <<>> /\ leftover = <<>> /\ idx = 0 /\ attrib = <<>>
    /\ first_time = <<>> /\ first_time_styles = <<>> /\ class_ = <<>>
    /\ queried = <<>> /\ out = <<>>

\* orules = _split_spacing_properties(rules)
SplitCall ==
    /\ pc = "split"
    /\ s_orules' = _split_spacing_properties(s_rules)
    /\ pc' = "returned"
    /\ UNCHANGED <<exclude_pseudoclasses, style_text, rules, leftover, idx,
                   attrib, first_time, first_time_styles, class_, queried, out,
                   mergeVars, s_rules>>

NextSplit == SplitCall

SpecSplit == InitSplit /\ [][NextSplit]_vars

-----------------------------------------------------------------------------
(* Premailer.transform on the document, for the stylesheets built from the
   blocks below *)

\* Number of blocks in the stylesheet.
MaxBlocks == 3

\* The blocks a stylesheet is made of.
CssBlocks ==
    { <<"p","{","c","o","l","o","r",":","b","l","u","e","}">>,   \* 'p{color:blue}'
      <<"/","*"," ","c"," ","*","/"," ","p"," ","{"," ","w","i","d","t","h",":"," ","1","0","p","x",";"," ","t","e","x","t","-","a","l","i","g","n",":"," ","c","e","n","t","e","r",";"," ","}">>,   \* '/* c */ p { width: 10px; text-align: center; }'
      <<"p",":","h","o","v","e","r","{","c","o","l","o","r",":","b","l","a","c","k","}">>,   \* 'p:hover{color:black}'
      <<"p",":","n","t","h","-","c","h","i","l","d","(","2",")","{","c","o","l","o","r",":","g","r","a","y","}">>,   \* 'p:nth-child(2){color:gray}'
      <<"p",":","f","i","r","s","t","-","c","h","i","l","d","{","c","o","l","o","r",":","g","r","e","e","n","}">>,   \* 'p:first-child{color:green}'
      <<"a",":","h","o","v","e","r",","," ","*","{","m","a","r","g","i","n",":","0"," ","1","p","x","}">>,   \* 'a:hover, *{margin:0 1px}'
      <<"p","{","}">>,   \* 'p{}'
      <<"a","{","c","o","l","o","r","}">>,   \* 'a{color}'
      <<"p","{","b","a","c","k","g","r","o","u","n","d",":","u","r","l","(","h","t","t","p",":","/","/","x","/","y",".","p","n","g",")","}">> }   \* 'p{background:url(http://x/y.png)}'

Stylesheets == UNION {[1..n -> CssBlocks] : n \in 1..MaxBlocks}

Init ==
    /\ exclude_pseudoclasses \in BOOLEAN
    /\ style_text \in {Join(sheet, <<"\n">>) : sheet \in Stylesheets}
    /\ pc = "start"
    /\ rules = <<>> /\ leftover = <<>> /\ idx = 0
    /\ attrib = InitialAttrib
    /\ first_time = <<>> /\ first_time_styles = <<>>
    /\ class_ = <<>> /\ queried = <<>>
    /\ out = NoDocument
    /\ m_style = <<>> /\ m_old = <<>> /\ m_new = <<>> /\ m_class = <<>>
    /\ m_attributes = <<>> /\ m_calls = 0
    /\ s_rules = <<>> /\ s_orules = <<>>

\* Lines 227-238: the rules of the <style> element are collected and the
\* element is emptied to its leftover rules, or removed.
Collect ==
    /\ pc = "start"
    /\ LET parsed == _parse_style_rules(style_text, exclude_pseudoclasses)
       IN  /\ rules' = parsed[1]
           /\ leftover' = parsed[2]
           /\ style_text' = IF parsed[2] # <<>> THEN LeftoverText(parsed[2])
                            ELSE IF ~keep_style_tags THEN Removed
                            ELSE style_text
    /\ pc' = "expand"
    /\ UNCHANGED <<exclude_pseudoclasses, idx, attrib, first_time,
                   first_time_styles, class_, queried, out, mergeVars, splitVars>>

\* Line 256: rules = _split_spacing_properties(rules); an exception leaves
\* transform, and rules is not assigned.
Expand ==
    /\ pc = "expand"
    /\ LET orules == _split_spacing_properties(rules)
       IN  IF orules = RaisedPairs
           THEN pc' = "failed" /\ rules' = rules
           ELSE pc' = "rules" /\ rules' = orules
    /\ UNCHANGED <<exclude_pseudoclasses, style_text, leftover, idx, attrib,
                   first_time, first_time_styles, class_, queried, out,
                   mergeVars, splitVars>>

\* One iteration of the loop of lines 260-286.
ApplyRule ==
    /\ pc = "rules"
    /\ idx < Len(rules)
    /\ LET selector == rules[idx + 1][1]
           style == rules[idx + 1][2]
           sc == SelectorAndClass(selector)
           st == ApplyToItems(CSSSelector(sc[1]), style, sc[2],
                              [attrib |-> attrib, first_time |-> first_time,
                               first_time_styles |-> first_time_styles,
                               raised |-> FALSE])
       IN  /\ class_' = sc[2]
           /\ queried' = Append(queried, sc)
           /\ attrib' = st.attrib
           /\ first_time' = st.first_time
           /\ first_time_styles' = st.first_time_styles
           /\ pc' = IF st.raised THEN "failed" ELSE "rules"
    /\ idx' = idx + 1
    /\ UNCHANGED <<exclude_pseudoclasses, style_text, rules, leftover, out,
                   mergeVars, splitVars>>

\* Lines 288-295: the initial inline styles are merged in again, with the
\* class_ the rule loop left behind.
Restore ==
    /\ pc = "rules"
    /\ idx = Len(rules)
    /\ LET st == ReapplyInline(first_time_styles, class_,
                               [attrib |-> attrib, raised |-> FALSE])
       IN  /\ attrib' = st.attrib
           /\ pc' = IF st.raised THEN "failed" ELSE "finish"
    /\ UNCHANGED <<exclude_pseudoclasses, style_text, rules, leftover, idx,
                   first_time, first_time_styles, class_, queried, out,
                   mergeVars, splitVars>>

\* Lines 297-319: the document is serialized and returned.
Finish ==
    /\ pc = "finish"
    /\ out' = [e \in Elements |-> Serialized(attrib[e])]
    /\ pc' = "done"
    /\ UNCHANGED <<exclude_pseudoclasses, style_text, rules, leftover, idx,
                   attrib, first_time, first_time_styles, class_, queried,
                   mergeVars, splitVars>>

Next == Collect \/ Expand \/ ApplyRule \/ Restore \/ Finish

Spec == Init /\ [][Next]_vars

-----------------------------------------------------------------------------
(* Reading a style text.  The properties below are stated on what a style
   text shows to its reader, not on the groups _merge_styles parses out of
   it: plain text is the unconditional group; otherwise every key{...}
   chunk is the group of that key, the key '' being the unconditional one. *)

RECURSIVE Chunks(_)
Chunks(s) ==
    LET i == Find(s, "{")
        k == IF i = 0 THEN 0 ELSE Find(From(s, i+1), "}")
    IN  IF i = 0 \/ k = 0 THEN <<>>
        ELSE << <<Strip(Upto(s, i-1)), SubSeq(s, i+1, i+k-1)>> >> \o Chunks(From(s, i+k+1))

\* <<key, declarations text>> of each group shown, in order.
ShownGroups(text) == IF Count(text, "{") = 0 THEN << <<<<>>, text>> >> ELSE Chunks(text)

\* The declarations of a declarations text, as a set of <<property, value>>.
DeclSet(content) ==
    LET ds == Split(content, ";")
    IN  { <<Strip(Split1(ds[i], ":")[1]), Strip(Split1(ds[i], ":")[2])>> :
             i \in {h \in 1..Len(ds) : Find(ds[h], ":") # 0} }

Properties(decls) == {kv[1] : kv \in decls}

\* The declarations the text shows in the group of key.
Group(text, key) ==
    LET g == ShownGroups(text)
    IN  UNION {DeclSet(g[i][2]) : i \in {h \in 1..Len(g) : g[h][1] = key}}

ShownKeys(text) == {ShownGroups(text)[i][1] : i \in 1..Len(ShownGroups(text))}

Hover == <<":","h","o","v","e","r">>

ContainsText(s, sub) ==
    \E i \in 1..(Len(s) + 1 - Len(sub)) : SubSeq(s, i, i + Len(sub) - 1) = sub

\* What the selector of a rule means: a suffix :first-child, :last-child or
\* an nth-child form filters the elements and belongs to the selector; any
\* other suffix is the pseudo key of the rule.
Suffix(selector) ==
    IF Find(selector, ":") = 0 THEN <<>> ELSE From(selector, Find(selector, ":"))

IsFilterSuffix(sfx) ==
    \/ sfx = <<":","f","i","r","s","t","-","c","h","i","l","d">>
    \/ sfx = <<":","l","a","s","t","-","c","h","i","l","d">>
    \/ ContainsText(sfx, <<"n","t","h","-","c","h","i","l","d">>)

PseudoKeyOf(selector) == IF IsFilterSuffix(Suffix(selector)) THEN <<>> ELSE Suffix(selector)

MatchedElements(selector) ==
    IF PseudoKeyOf(selector) = <<>> THEN Range(CSSSelector(selector))
    ELSE Range(CSSSelector(Upto(selector, Find(selector, ":") - 1)))

\* The style attribute of an element, '' when it has none.
StyleOf(element_attrib) == GetOr(element_attrib, str_style, <<>>)

\* The elements with and without an inline style in the document.
Inlined == {e \in Elements : StyleOf(InitialAttrib[e]) # <<>>}
Plain == Elements \ Inlined

-----------------------------------------------------------------------------
(* Claims *)

\* C1: inline style wins.  When transform has returned, the unconditional
\* group of the style of every element that had an inline style holds every
\* declaration of that inline style, with the inline value.
C1_InlineStyleWins ==
    pc = "done" =>
        \A e \in Inlined :
            DeclSet(StyleOf(InitialAttrib[e])) \subseteq Group(StyleOf(out[e]), <<>>)

\* The rules applied that match element e with the empty pseudo key.
UnconditionalRulesOf(e) ==
    {i \in 1..Len(rules) : PseudoKeyOf(rules[i][1]) = <<>> /\ e \in MatchedElements(rules[i][1])}

\* C2: later rules win.  When transform has returned, for an element without
\* inline style and every property declared by an applied rule that matches
\* the element with the empty pseudo key, the unconditional group of the
\* element's style gives the property the value of the last such rule.
C2_LaterRulesWin ==
    pc = "done" =>
        \A e \in Plain : \A i \in UnconditionalRulesOf(e) :
            \A kv \in DeclSet(rules[i][2]) :
                (\A j \in UnconditionalRulesOf(e) :
                     j > i => kv[1] \notin Properties(DeclSet(rules[j][2])))
                => kv \in Group(StyleOf(out[e]), <<>>)

\* C3: after _merge_styles(old, new, ''), the unconditional group of the
\* result holds exactly the declarations of new and the declarations of
\* old's unconditional group whose property new does not name; every other
\* group of old is in the result with the same declarations.
C3_MergeUnconditional ==
    (m_calls > 0 /\ m_class = <<>>) =>
        /\ m_style # Raised
        /\ Group(m_style, <<>>) =
               DeclSet(m_new) \cup
               {kv \in Group(m_old, <<>>) : kv[1] \notin Properties(DeclSet(m_new))}
        /\ \A key \in (ShownKeys(m_old) \cup ShownKeys(m_style)) \ {<<>>} :
               Group(m_style, key) = Group(m_old, key)

\* The values of a margin or padding declaration.
SpacingValues(decl) == SplitWords(Split1(decl, ":")[2])

IsSpacing(decl) == Split1(decl, ":")[1] \in {str_margin, str_padding}

Longhand(decl, side, value) ==
    Split1(decl, ":")[1] \o <<"-">> \o side \o <<":">> \o value

\* The declarations that stand for one declaration after the expansion.
ExpectedDeclarations(decl) ==
    LET v == SpacingValues(decl)
        n == Len(v)
    IN  IF ~IsSpacing(decl) THEN <<decl>>
        ELSE << Longhand(decl, <<"t","o","p">>, v[1]),
                Longhand(decl, <<"r","i","g","h","t">>, IF n = 1 THEN v[1] ELSE v[2]),
                Longhand(decl, <<"b","o","t","t","o","m">>, IF n <= 2 THEN v[1] ELSE v[3]),
                Longhand(decl, <<"l","e","f","t">>,
                         IF n = 1 THEN v[1] ELSE IF n <= 3 THEN v[2] ELSE v[4]) >>

RECURSIVE Concat(_)
Concat(seqs) == IF seqs = <<>> THEN <<>> ELSE Head(seqs) \o Concat(Tail(seqs))

ExpectedBlock(style) ==
    LET ds == Split(style, ";")
    IN  Join(Concat([i \in 1..Len(ds) |-> ExpectedDeclarations(ds[i])]), <<";">>)

\* A block of well-formed declarations whose margin and padding declarations
\* have 1 to 4 values.
InClaimedRange(style) ==
    \A d \in Range(Split(style, ";")) :
        /\ Count(d, ":") = 1
        /\ IsSpacing(d) => Len(SpacingValues(d)) \in 1..4

\* C4: _split_spacing_properties keeps the selectors and, in a block whose
\* margin and padding declarations have 1 to 4 values, replaces each of them
\* in place by its -top, -right, -bottom and -left declarations and leaves
\* the other declarations as they are.
C4_SpacingExpansion ==
    (pc = "returned" /\ s_orules # RaisedPairs) =>
        /\ Len(s_orules) = Len(s_rules)
        /\ \A i \in 1..Len(s_rules) :
               /\ s_orules[i][1] = s_rules[i][1]
               /\ InClaimedRange(s_rules[i][2]) =>
                      s_orules[i][2] = ExpectedBlock(s_rules[i][2])

\* Two rules expanded: a block with a three-value shorthand, and a block with
\* a two-value shorthand between other declarations.
C4_Witness ==
    /\ pc = "returned" /\ s_orules # RaisedPairs /\ Len(s_rules) = 2
    /\ \A i \in 1..2 : InClaimedRange(s_rules[i][2])
    /\ \E d \in Range(Split(s_rules[1][2], ";")) : IsSpacing(d) /\ Len(SpacingValues(d)) = 3
    /\ \E d \in Range(Split(s_rules[2][2], ";")) : IsSpacing(d) /\ Len(SpacingValues(d)) = 2
    /\ Len(Split(s_rules[2][2], ";")) = 3

\* The rules transform applied to element e, as positions in rules.
AppliedTo(e) == {i \in 1..Len(queried) : e \in Range(CSSSelector(queried[i][1]))}

\* The rules of the stylesheet, applied or left in the <style> element.
AllRules == rules \o leftover

\* Element e is matched by a rule with the empty pseudo key and by a :hover
\* rule of the stylesheet.
MatchedByBoth(e) ==
    /\ \E r \in Range(AllRules) : PseudoKeyOf(r[1]) = <<>> /\ e \in MatchedElements(r[1])
    /\ \E r \in Range(AllRules) : PseudoKeyOf(r[1]) = Hover /\ e \in MatchedElements(r[1])

\* The first two rules applied to e are :hover rules and no later one is.
HoverRulesOnlyFirst(e) ==
    \E i, j \in AppliedTo(e) :
        /\ i < j /\ \A k \in AppliedTo(e) : k = i \/ k >= j
        /\ queried[i][2] = Hover /\ queried[j][2] = Hover
        /\ \A k \in AppliedTo(e) : k > j => queried[k][2] # Hover

\* The line of the <style> element that keeps a leftover rule.
LeftoverLine(r) == r[1] \o <<" ", "{">> \o r[2] \o <<"}">>

\* pseudo key.
C6_FilterNeverPseudoKey ==
    /\ \A i \in 1..Len(queried) :
           IsFilterSuffix(Suffix(rules[i][1])) => queried[i] = <<rules[i][1], <<>>>>
    /\ \A i \in 1..Len(leftover) : ~IsFilterSuffix(Suffix(leftover[i][1]))

\* The attribute a property is mapped to, '' for a property that has none.
AttributeOf(prop) ==
    IF prop = str_text_align THEN str_align
    ELSE IF prop = str_background_color THEN str_bgcolor
    ELSE IF prop \in {str_width, str_height} THEN prop
    ELSE <<>>

\* C7: the attribute mapper reads only the unconditional group.  Every
\* attribute it sets from a merged style text comes from a declaration of
\* the unconditional group of that text.
C7_AttributesFromUnconditional ==
    (m_calls > 0 /\ m_style # Raised) =>
        \A a \in Keys(m_attributes) :
            \E kv \in Group(m_style, <<>>) : AttributeOf(kv[1]) = a

\* A declaration block with a declaration that has not exactly one ':'.
Malformed(style) == \E d \in Range(Split(style, ";")) : Count(d, ":") # 1

HasMalformed(rs) == \E i \in 1..Len(rs) : Malformed(rs[i][2])

\* C8: a malformed declaration is fatal.  When a collected rule has a
\* declaration without exactly one ':', the shorthand expansion step makes
\* transform fail and no document is returned; a failed transform stays
\* failed.
C8_MalformedIsFatal ==
    [][ /\ (pc = "expand" /\ HasMalformed(rules)) => (pc' = "failed" /\ out' = NoDocument)
        /\ pc = "failed" => (pc' = "failed" /\ out' = NoDocument) ]_vars

\* transform has failed in the expansion step on rules of which a malformed
\* one matches no element, and nothing was applied or returned.
C8_Witness ==
    /\ pc = "failed" /\ idx = 0 /\ out = NoDocument /\ attrib = InitialAttrib
    /\ \E i \in 1..Len(rules) : Malformed(rules[i][2]) /\ CSSSelector(rules[i][1]) = <<>>
    /\ \E i \in 1..Len(rules) : ~Malformed(rules[i][2]) /\ CSSSelector(rules[i][1]) # <<>>

\* C9: serialization round trip.  After a merge with a non-empty pseudo key
\* K the result shows a group K{...} that holds the merged declarations, and
\* its unconditional group is the one of old.
C9_PseudoGroupKept ==
    (m_calls > 0 /\ m_class # <<>> /\ m_style # Raised) =>
        /\ DeclSet(m_new) \subseteq Group(m_style, m_class)
        /\ Group(m_style, <<>>) = Group(m_old, <<>>)

\* C10: first touch with an inline style.  When a rule with a non-empty
\* pseudo key K is the first to touch an element that has an inline style,
\* the element's style then holds the rule's declarations in group K and the
\* inline declarations in the unconditional group.
C10_FirstTouch ==
    [][ \A e \in Inlined :
            (/\ pc = "rules" /\ pc' = "rules"
             /\ e \notin Range(first_time) /\ e \in Range(first_time')
             /\ class_' # <<>>)
            => /\ Group(StyleOf(attrib'[e]), class_') = DeclSet(rules[idx + 1][2])
               /\ Group(StyleOf(attrib'[e]), <<>>) = DeclSet(StyleOf(InitialAttrib[e])) ]_vars

=============================================================================
